---- MODULE Spec2Model ----
(***************************************************************************)
(* A model of the AudioManager of visual-sketches                          *)
(* (src/src/utils/AudioManager.js) together with the browser objects it    *)
(* drives: audio contexts, device streams and their tracks, media-stream   *)
(* source nodes, the clock, and the microtask queue on which the           *)
(* continuations of its async methods run.                                 *)
(***************************************************************************)
EXTENDS Integers, Sequences, FiniteSets

VARIABLES
    audioManager,   \* the AudioManager instance: its fields
    platform,       \* browser objects: contexts, streams/tracks, source nodes
    now,            \* Date.now(), in ms
    calls,          \* the startMicrophone calls in flight, one record per slot
    microtasks,     \* the microtask queue: ids of calls whose continuation is due
    frames,         \* number of frequency snapshots pulled so far
    limits,         \* what one run may use up: fixed when the run starts
    windowTimes,    \* history: the times of the samples summed in metrics.volumeSum
    run,            \* history: the frames pulled last that had one and the same raw volume
    last            \* history: the operation that finished last, and its result

vars == <<audioManager, platform, now, calls, microtasks, frames, limits, windowTimes,
          run, last>>

----------------------------------------------------------------------------
(* Bounds of the model *)

MaxCalls == 2          \* startMicrophone calls that may be in flight together
MaxStreams == 2        \* device streams getUserMedia may grant in one run
MaxContexts == 2       \* audio contexts that may be created in one run
MaxFrames == 2         \* frequency snapshots pulled in one run
MaxTicks == 3          \* clock advances in one run
ScenarioFrames == 10   \* frames of steady input followed in one run
TickMs == 500          \* ms per clock advance
NumBins == 1           \* bins per frequency snapshot
TracksPerStream == 1   \* tracks of a granted stream: the request is audio-only

\* the platform operations that may throw
PlatformFaults ==
    {"new AudioContext", "track.stop", "disconnect", "createMediaStreamSource",
     "connect"}

BinLevels == {0, 255}  \* the byte magnitudes a bin takes: silence and full scale
SteadyLevels == {153}   \* the byte magnitude of steady input: 153 / 255 = 0.6

\* The specifications share the actions and differ in what a run may use up.
\* Spec lets startMicrophone calls overlap; SpecSerial has one call in flight at
\* a time; in both any platform operation may throw, and both follow the signal
\* path for one frame and one clock advance. SpecTeardownSucceeds is Spec on a
\* platform whose track.stop() and disconnect() do not throw. SpecSignal follows
\* the signal path for MaxFrames frames and MaxTicks clock advances, over two
\* sessions of one audio context on a platform whose operations do not throw.
\* SpecScenario follows ScenarioFrames frames of input at the steady levels.
LifecycleLimits ==
    [ calls |-> MaxCalls, streams |-> MaxStreams, contexts |-> MaxContexts,
      frames |-> 1, ticks |-> 1, faults |-> PlatformFaults, levels |-> BinLevels ]
SerialLimits == [LifecycleLimits EXCEPT !.calls = 1]
TeardownSucceedsLimits ==
    [LifecycleLimits EXCEPT !.faults = @ \ {"track.stop", "disconnect"}]
SignalLimits ==
    [ calls |-> 1, streams |-> 2, contexts |-> 1,
      frames |-> MaxFrames, ticks |-> MaxTicks, faults |-> {}, levels |-> BinLevels ]
ScenarioLimits ==
    [ calls |-> 1, streams |-> 2, contexts |-> 1,
      frames |-> ScenarioFrames, ticks |-> 1, faults |-> {}, levels |-> SteadyLevels ]

CallIds == 1..MaxCalls
StreamIds == 1..MaxStreams
TrackIds == 1..TracksPerStream
Snapshots == [1..NumBins -> limits.levels]

NULL == {}             \* a null reference; a reference to object i is {i}
Ref(i) == {i}
Obj(r) == CHOOSE i \in r : TRUE

----------------------------------------------------------------------------
(* Numbers: JavaScript numbers are modelled as exact rationals <<n, d>>,    *)
(* d > 0, in lowest terms.                                                  *)

RECURSIVE GCD(_, _)
GCD(a, b) == IF b = 0 THEN a ELSE GCD(b, a % b)

Abs(a) == IF a < 0 THEN -a ELSE a

Rat(n, d) ==
    LET g == GCD(Abs(n), d)
    IN  IF n = 0 THEN <<0, 1>> ELSE <<n \div g, d \div g>>

Zero == Rat(0, 1)
One == Rat(1, 1)

RAdd(x, y) ==
    LET g == GCD(x[2], y[2])
        l == (x[2] \div g) * y[2]
    IN  Rat(x[1] * (l \div x[2]) + y[1] * (l \div y[2]), l)

RSub(x, y) == RAdd(x, <<-y[1], y[2]>>)

RMul(x, y) ==
    LET a == Rat(x[1], y[2])
        b == Rat(y[1], x[2])
    IN  Rat(a[1] * b[1], a[2] * b[2])

RDivInt(x, k) == RMul(x, Rat(1, k))

\* x <= y and x < y, by the sign of y - x over the common denominator
RLe(x, y) == RSub(y, x)[1] >= 0
RLt(x, y) == RSub(y, x)[1] > 0

RECURSIVE RPow(_, _)
RPow(x, n) == IF n = 0 THEN One ELSE RMul(x, RPow(x, n - 1))

RMax(x, y) == IF RLe(x, y) THEN y ELSE x

----------------------------------------------------------------------------
(* The manager as its constructor leaves it, and the browser with nothing   *)
(* allocated yet.                                                           *)

ResetMetrics(t) ==
    [ lastUpdate     |-> t,
      updateInterval |-> 1000,
      peakVolume     |-> Zero,
      averageVolume  |-> Zero,
      sampleCount    |-> 0,
      volumeSum      |-> Zero ]

Constructed ==
    [ initialized     |-> FALSE,
      isActive        |-> FALSE,
      audioContext    |-> NULL,
      analyser        |-> NULL,
      microphone      |-> NULL,
      volumeSmoothing |-> Rat(4, 5),
      prevVolume      |-> Zero,
      stream          |-> NULL,
      metrics         |-> ResetMetrics(0) ]

NoPlatformObjects ==
    [ contexts  |-> 0,                          \* audio contexts created so far
      closed    |-> {},                         \* those of them that were closed
      streams   |-> 0,                          \* device streams granted so far
      live      |-> [s \in StreamIds |-> {}],   \* per stream, its tracks not yet stopped
      connected |-> {} ]                        \* source nodes (named by their stream) connected

\* a startMicrophone call: where it is suspended, and history: the stream of
\* the session its first stopMicrophone() found, the calls that were awaiting the
\* device when it entered its try block, the stream it was granted, and what
\* made it fail
IdleCall ==
    [pc |-> "idle", prior |-> NULL, pending |-> {}, acquired |-> NULL, cause |-> "none"]

\* no frame pulled yet; after n frames of raw volume raw, the first of them
\* pulled at smoothed volume start and the last at smoothed volume prev
NoRun == [n |-> 0, raw |-> Zero, start |-> Zero, prev |-> Zero]

\* what a step leaves in last: the method that returned (or whose promise
\* settled), whether it threw (or rejected), and the session before the step;
\* a step that completes no method leaves Step(..)
Step(op) ==
    [ op |-> op, threw |-> FALSE, ret |-> NULL, call |-> NULL, report |-> NULL,
      before |-> [isActive |-> FALSE, initialized |-> FALSE] ]

Finished(op, threw) ==
    [ Step(op) EXCEPT !.threw = threw,
                      !.before = [ isActive |-> audioManager.isActive,
                                   initialized |-> audioManager.initialized ] ]

InitWith(lim) ==
    /\ limits = lim
    /\ audioManager = Constructed
    /\ platform = NoPlatformObjects
    /\ now = 0
    /\ calls = [c \in CallIds |-> IdleCall]
    /\ microtasks = <<>>
    /\ frames = 0
    /\ windowTimes = {}
    /\ run = NoRun
    /\ last = Step("constructor")

Init == InitWith(LifecycleLimits)
InitSerial == InitWith(SerialLimits)
InitTeardownSucceeds == InitWith(TeardownSucceedsLimits)
InitSignal == InitWith(SignalLimits)
InitScenario == InitWith(ScenarioLimits)

----------------------------------------------------------------------------
(* initialize(): am is the manager, pl the platform, fault says whether     *)
(* constructing the AudioContext throws. The result is the manager and      *)
(* platform afterwards and whether the returned promise is rejected.        *)

\* initialize() without its first line, if (this.initialized) return
initializeAgain(am, pl, fault) ==
    LET id == pl.contexts + 1
    IN  [ am |-> [am EXCEPT !.audioContext = Ref(id),
                            !.analyser = Ref(id),
                            !.initialized = TRUE],
          pl |-> [pl EXCEPT !.contexts = id],
          threw |-> FALSE ]

initialize(am, pl, fault) ==
    IF am.initialized THEN [am |-> am, pl |-> pl, threw |-> FALSE]
    ELSE IF fault THEN [am |-> am, pl |-> pl, threw |-> TRUE]
    ELSE LET id == pl.contexts + 1
         IN  [ am |-> [am EXCEPT !.audioContext = Ref(id),
                                 !.analyser = Ref(id),
                                 !.initialized = TRUE],
               pl |-> [pl EXCEPT !.contexts = id],
               threw |-> FALSE ]

\* initialize() creates a context unless the manager is initialized already
CanInitialize(am, pl) == am.initialized \/ pl.contexts < limits.contexts
InitializeFaults(am) ==
    IF am.initialized \/ "new AudioContext" \notin limits.faults THEN {FALSE}
    ELSE BOOLEAN

----------------------------------------------------------------------------
(* stopMicrophone(): fault names the teardown operation that throws, if     *)
(* any: the stop() of track k, or the source node's disconnect().           *)

NoFault == [at |-> "none", k |-> 0]

TeardownFaults(am) ==
    {NoFault}
      \cup (IF am.isActive /\ am.stream # NULL /\ "track.stop" \in limits.faults
            THEN {[at |-> "track", k |-> k] : k \in TrackIds} ELSE {})
      \cup (IF am.isActive /\ am.microphone # NULL /\ "disconnect" \in limits.faults
            THEN {[at |-> "disconnect", k |-> 0]} ELSE {})

\* the try block of stopMicrophone()
TearDown(am, pl, fault) ==
    LET \* stream.getTracks().forEach(track => track.stop())
        stopped == IF am.stream = NULL THEN {}
                   ELSE IF fault.at = "track" THEN 1..(fault.k - 1)
                   ELSE TrackIds
        pl1 == IF am.stream = NULL THEN pl
               ELSE [pl EXCEPT !.live[Obj(am.stream)] = @ \ stopped]
    IN  IF am.stream # NULL /\ fault.at = "track"
        THEN [am |-> am, pl |-> pl1, threw |-> TRUE]
        ELSE
          LET am1 == [am EXCEPT !.stream = NULL]
          IN  IF am.microphone # NULL /\ fault.at = "disconnect"
              THEN [am |-> am1, pl |-> pl1, threw |-> TRUE]
              ELSE [ am |-> [am1 EXCEPT !.microphone = NULL, !.isActive = FALSE],
                     pl |-> IF am.microphone = NULL THEN pl1
                            ELSE [pl1 EXCEPT !.connected = @ \ am.microphone],
                     threw |-> FALSE ]

\* stopMicrophone() that nulls this.stream without stopping its tracks
stopMicrophoneKeepsTracks(am, pl, fault) ==
    IF ~am.isActive THEN [am |-> am, pl |-> pl, threw |-> FALSE]
    ELSE [ am |-> [am EXCEPT !.stream = NULL, !.microphone = NULL, !.isActive = FALSE],
           pl |-> IF am.microphone = NULL THEN pl
                  ELSE [pl EXCEPT !.connected = @ \ am.microphone],
           threw |-> FALSE ]

\* stopMicrophone() that begins by releasing the audio context, as cleanup() does
stopMicrophoneClosesContext(am, pl, fault) ==
    LET am0 == [am EXCEPT !.audioContext = NULL]
        pl0 == [pl EXCEPT !.closed = @ \cup am.audioContext]
    IN  IF ~am.isActive THEN [am |-> am0, pl |-> pl0, threw |-> FALSE]
        ELSE TearDown(am0, pl0, fault)

stopMicrophone(am, pl, fault) ==
    IF ~am.isActive THEN [am |-> am, pl |-> pl, threw |-> FALSE]
    ELSE TearDown(am, pl, fault)

----------------------------------------------------------------------------
(* getAudioData() and updateMetrics(volume)                                 *)

Sum(snapshot) ==
    LET RECURSIVE Upto(_)
        Upto(i) == IF i = 0 THEN 0 ELSE snapshot[i] + Upto(i - 1)
    IN  Upto(NumBins)

\* sum / frequencyData.length / 255
RawVolume(snapshot) == RDivInt(RDivInt(Rat(Sum(snapshot), 1), NumBins), 255)

\* prevVolume * volumeSmoothing + rawVolume * (1 - volumeSmoothing)
\* the smoothing with the new sample at full weight
SmoothUnweighted(prevVolume, rawVolume, volumeSmoothing) ==
    RAdd(RMul(prevVolume, volumeSmoothing), rawVolume)

\* the smoothing with the two weights exchanged
SmoothSwapped(prevVolume, rawVolume, volumeSmoothing) ==
    RAdd(RMul(prevVolume, RSub(One, volumeSmoothing)),
         RMul(rawVolume, volumeSmoothing))

Smooth(prevVolume, rawVolume, volumeSmoothing) ==
    RAdd(RMul(prevVolume, volumeSmoothing),
         RMul(rawVolume, RSub(One, volumeSmoothing)))

\* the test that a report is due
ReportDue(metrics, t) == t - metrics.lastUpdate >= metrics.updateInterval

\* updateMetrics() whose reset leaves out this.metrics.lastUpdate = now
updateMetricsKeepsBoundary(metrics, volume, t) ==
    LET m1 == [metrics EXCEPT !.peakVolume = RMax(@, volume),
                              !.volumeSum = RAdd(@, volume),
                              !.sampleCount = @ + 1]
    IN  IF ReportDue(m1, t)
        THEN [m1 EXCEPT !.averageVolume = RDivInt(m1.volumeSum, m1.sampleCount),
                        !.peakVolume = volume,
                        !.volumeSum = volume,
                        !.sampleCount = 1]
        ELSE m1

\* updateMetrics() whose reset empties the window instead of seeding it with
\* the current sample
updateMetricsResetsEmpty(metrics, volume, t) ==
    LET m1 == [metrics EXCEPT !.peakVolume = RMax(@, volume),
                              !.volumeSum = RAdd(@, volume),
                              !.sampleCount = @ + 1]
    IN  IF ReportDue(m1, t)
        THEN [m1 EXCEPT !.averageVolume = RDivInt(m1.volumeSum, m1.sampleCount),
                        !.lastUpdate = t,
                        !.peakVolume = Zero,
                        !.volumeSum = Zero,
                        !.sampleCount = 0]
        ELSE m1

updateMetrics(metrics, volume, t) ==
    LET m1 == [metrics EXCEPT !.peakVolume = RMax(@, volume),
                              !.volumeSum = RAdd(@, volume),
                              !.sampleCount = @ + 1]
    IN  IF ReportDue(m1, t)
        THEN [m1 EXCEPT !.averageVolume = RDivInt(m1.volumeSum, m1.sampleCount),
                        !.lastUpdate = t,
                        !.peakVolume = volume,
                        !.volumeSum = volume,
                        !.sampleCount = 1]
        ELSE m1

Inert(am) == ~am.isActive \/ am.analyser = NULL

\* getAudioData() that tests only !this.analyser
getAudioDataIfAnalyser(am, snapshot, t) ==
    IF am.analyser = NULL
    THEN [ am |-> am,
           ret |-> [volume |-> Zero, frequencyData |-> NULL, metrics |-> NULL] ]
    ELSE
      LET volume == Smooth(am.prevVolume, RawVolume(snapshot), am.volumeSmoothing)
          am1 == [am EXCEPT !.prevVolume = volume,
                            !.metrics = updateMetrics(@, volume, t)]
      IN  [ am |-> am1,
            ret |-> [ volume |-> am1.prevVolume,
                      frequencyData |-> {snapshot},
                      metrics |-> {am1.metrics} ] ]

getAudioData(am, snapshot, t) ==
    IF Inert(am)
    THEN [ am |-> am,
           ret |-> [volume |-> Zero, frequencyData |-> NULL, metrics |-> NULL] ]
    ELSE
      LET volume == Smooth(am.prevVolume, RawVolume(snapshot), am.volumeSmoothing)
          am1 == [am EXCEPT !.prevVolume = volume,
                            !.metrics = updateMetrics(@, volume, t)]
      IN  [ am |-> am1,
            ret |-> [ volume |-> am1.prevVolume,
                      frequencyData |-> {snapshot},
                      metrics |-> {am1.metrics} ] ]

----------------------------------------------------------------------------
(* cleanup(): the promise stopMicrophone() returns is dropped, so a         *)
(* teardown failure goes unnoticed.                                         *)

\* cleanup() without its first line, this.stopMicrophone()
cleanupWithoutStop(am, pl, fault) ==
    [ am |-> [am EXCEPT !.audioContext = NULL, !.initialized = FALSE],
      pl |-> IF am.audioContext = NULL THEN pl
             ELSE [pl EXCEPT !.closed = @ \cup am.audioContext],
      threw |-> FALSE ]

cleanup(am, pl, fault) ==
    LET r == stopMicrophone(am, pl, fault)
    IN  [ am |-> [r.am EXCEPT !.audioContext = NULL, !.initialized = FALSE],
          pl |-> IF r.am.audioContext = NULL THEN r.pl
                 ELSE [r.pl EXCEPT !.closed = @ \cup r.am.audioContext],
          threw |-> FALSE ]

\* history of the steady input: a frame of the raw volume of the frames before
\* it extends their run, any other frame starts a run
NextRun(r, prevVolume, rawVolume) ==
    IF r.n > 0 /\ r.raw = rawVolume
    THEN [r EXCEPT !.n = @ + 1, !.prev = prevVolume]
    ELSE [n |-> 1, raw |-> rawVolume, start |-> prevVolume, prev |-> prevVolume]

----------------------------------------------------------------------------
(* The public methods, called from a click handler, an animation frame, the *)
(* unload handler, or any other caller.                                     *)

CallInitialize ==
    /\ CanInitialize(audioManager, platform)
    /\ \E fault \in InitializeFaults(audioManager) :
          LET r == initialize(audioManager, platform, fault)
          IN  /\ audioManager' = r.am
              /\ platform' = r.pl
              /\ last' = Finished("initialize", r.threw)
    /\ UNCHANGED <<now, calls, microtasks, frames, limits, windowTimes, run>>

\* a stopMicrophone() that also drops the device requests still pending
CallStopMicrophoneCancels ==
    /\ \E fault \in TeardownFaults(audioManager) :
          LET r == stopMicrophone(audioManager, platform, fault)
          IN  /\ audioManager' = r.am
              /\ platform' = r.pl
              /\ last' = Finished("stopMicrophone", r.threw)
    /\ calls' = [c \in CallIds |->
                   IF calls[c].pc = "awaitGetUserMedia" THEN IdleCall ELSE calls[c]]
    /\ UNCHANGED <<now, microtasks, frames, limits, windowTimes, run>>

CallStopMicrophone ==
    /\ \E fault \in TeardownFaults(audioManager) :
          LET r == stopMicrophone(audioManager, platform, fault)
          IN  /\ audioManager' = r.am
              /\ platform' = r.pl
              /\ last' = Finished("stopMicrophone", r.threw)
    /\ UNCHANGED <<now, calls, microtasks, frames, limits, windowTimes, run>>

CallCleanup ==
    /\ \E fault \in TeardownFaults(audioManager) :
          LET r == cleanup(audioManager, platform, fault)
          IN  /\ audioManager' = r.am
              /\ platform' = r.pl
              /\ last' = Finished("cleanup", r.threw)
    /\ UNCHANGED <<now, calls, microtasks, frames, limits, windowTimes, run>>

CallGetAudioData ==
    /\ Inert(audioManager) \/ frames < limits.frames
    /\ \E snapshot \in Snapshots :
          LET r == getAudioData(audioManager, snapshot, now)
              due == ~Inert(audioManager) /\ ReportDue(audioManager.metrics, now)
              summed == windowTimes \cup {now}
          IN  /\ audioManager' = r.am
              /\ frames' = IF Inert(audioManager) THEN frames ELSE frames + 1
              /\ windowTimes' = IF Inert(audioManager) THEN windowTimes
                                ELSE IF due THEN {now} ELSE summed
              /\ run' = IF Inert(audioManager) THEN run
                        ELSE NextRun(run, audioManager.prevVolume, RawVolume(snapshot))
              /\ last' = [ Finished("getAudioData", FALSE) EXCEPT
                             !.ret = {r.ret},
                             !.report = IF due
                                        THEN {[ start |-> audioManager.metrics.lastUpdate,
                                                at |-> now,
                                                times |-> summed ]}
                                        ELSE NULL ]
    /\ UNCHANGED <<platform, now, calls, microtasks, limits>>

\* time passes
Tick ==
    /\ now < limits.ticks * TickMs
    /\ now' = now + TickMs
    /\ last' = Step("tick")
    /\ UNCHANGED <<audioManager, platform, calls, microtasks, frames, limits, windowTimes, run>>

----------------------------------------------------------------------------
(* startMicrophone(), one action per stretch of code between two awaits.    *)
(* calls[c].pc names the await at which call c is suspended.                *)

FreeSlot(c) ==
    /\ c <= limits.calls
    /\ calls[c].pc = "idle"
    /\ \A d \in CallIds : d < c => calls[d].pc # "idle"

Resumes(c, at) == calls[c].pc = at /\ microtasks # <<>> /\ Head(microtasks) = c

\* try { await this.stopMicrophone(); ...: the call runs stopMicrophone() and
\* suspends on the promise it returns
EnterTry(c, queue) ==
    \E fault \in TeardownFaults(audioManager) :
        LET r == stopMicrophone(audioManager, platform, fault)
        IN  /\ audioManager' = r.am
            /\ platform' = r.pl
            /\ calls' = [calls EXCEPT ![c] =
                           [ pc |-> "awaitStop",
                             prior |-> IF audioManager.isActive
                                       THEN audioManager.stream ELSE NULL,
                             pending |-> {d \in CallIds :
                                            calls[d].pc = "awaitGetUserMedia"},
                             acquired |-> NULL,
                             cause |-> IF r.threw THEN "stopMicrophone" ELSE "none" ]]
            /\ microtasks' = Append(queue, c)

\* catch (error) { await this.stopMicrophone(); throw error }: the call runs
\* stopMicrophone() on the manager am and suspends once more before it rejects
EnterCatch(c, am, pl, acquired, cause, queue) ==
    \E fault \in TeardownFaults(am) :
        LET r == stopMicrophone(am, pl, fault)
        IN  /\ audioManager' = r.am
            /\ platform' = r.pl
            /\ calls' = [calls EXCEPT ![c] =
                           [@ EXCEPT !.pc = "awaitCatchStop",
                                     !.acquired = acquired,
                                     !.cause = cause]]
            /\ microtasks' = Append(queue, c)

CallStartMicrophone(c) ==
    /\ FreeSlot(c)
    /\ IF audioManager.initialized
       THEN EnterTry(c, microtasks)
       ELSE /\ CanInitialize(audioManager, platform)
            /\ \E fault \in InitializeFaults(audioManager) :
                  LET r == initialize(audioManager, platform, fault)
                  IN  /\ audioManager' = r.am
                      /\ platform' = r.pl
                      /\ calls' = [calls EXCEPT ![c] =
                                     [IdleCall EXCEPT
                                        !.pc = "awaitInitialize",
                                        !.cause = IF r.threw THEN "initialize"
                                                  ELSE "none"]]
                      /\ microtasks' = Append(microtasks, c)
    /\ last' = Step("startMicrophone called")
    /\ UNCHANGED <<now, frames, limits, windowTimes, run>>

StartFinished(c, threw) ==
    [Finished("startMicrophone", threw) EXCEPT !.call = {calls'[c]}]

\* after await this.initialize(): outside the try, so a failure rejects the call
AfterInitialize(c) ==
    /\ Resumes(c, "awaitInitialize")
    /\ IF calls[c].cause = "initialize"
       THEN /\ calls' = [calls EXCEPT ![c] = [@ EXCEPT !.pc = "idle"]]
            /\ microtasks' = Tail(microtasks)
            /\ last' = StartFinished(c, TRUE)
            /\ UNCHANGED <<audioManager, platform>>
       ELSE /\ EnterTry(c, Tail(microtasks))
            /\ last' = Step("startMicrophone resumed")
    /\ UNCHANGED <<now, frames, limits, windowTimes, run>>

\* after the first await this.stopMicrophone(): request the device
AfterStop(c) ==
    /\ Resumes(c, "awaitStop")
    /\ IF calls[c].cause = "stopMicrophone"
       THEN EnterCatch(c, audioManager, platform, NULL, "stopMicrophone",
                       Tail(microtasks))
       ELSE /\ calls' = [calls EXCEPT ![c] = [@ EXCEPT !.pc = "awaitGetUserMedia"]]
            /\ microtasks' = Tail(microtasks)
            /\ UNCHANGED <<audioManager, platform>>
    /\ last' = Step("startMicrophone resumed")
    /\ UNCHANGED <<now, frames, limits, windowTimes, run>>

\* what throws between the grant and isActive = true
GrantFaults(am) ==
    IF am.audioContext = NULL THEN {"createMediaStreamSource"}
    ELSE IF am.analyser = NULL THEN {"connect"}
    ELSE {"none"} \cup ({"createMediaStreamSource", "connect"} \cap limits.faults)

\* getUserMedia resolves: the browser hands over a new stream, all its tracks live
DeviceGrant(c) ==
    /\ calls[c].pc = "awaitGetUserMedia"
    /\ microtasks = <<>>
    /\ platform.streams < limits.streams
    /\ LET s == platform.streams + 1
           pl1 == [platform EXCEPT !.streams = s, !.live[s] = TrackIds]
           am1 == [audioManager EXCEPT !.stream = Ref(s)]
       IN  \E fault \in GrantFaults(audioManager) :
             IF fault = "none"
             THEN /\ audioManager' = [am1 EXCEPT !.microphone = Ref(s),
                                                 !.isActive = TRUE,
                                                 !.metrics = ResetMetrics(now)]
                  /\ platform' = [pl1 EXCEPT !.connected = @ \cup {s}]
                  /\ calls' = [calls EXCEPT ![c] =
                                 [@ EXCEPT !.pc = "idle", !.acquired = Ref(s)]]
                  /\ microtasks' = microtasks
                  /\ windowTimes' = {}
                  /\ run' = NoRun
                  /\ last' = StartFinished(c, FALSE)
             ELSE /\ EnterCatch(c,
                        IF fault = "connect"
                        THEN [am1 EXCEPT !.microphone = Ref(s)] ELSE am1,
                        pl1, Ref(s), fault, microtasks)
                  /\ windowTimes' = windowTimes
                  /\ run' = run
                  /\ last' = Step("startMicrophone resumed")
    /\ UNCHANGED <<now, frames, limits>>

\* getUserMedia rejects: permission denied, or no device
DeviceReject(c) ==
    /\ calls[c].pc = "awaitGetUserMedia"
    /\ microtasks = <<>>
    /\ EnterCatch(c, audioManager, platform, NULL, "getUserMedia", microtasks)
    /\ last' = Step("startMicrophone resumed")
    /\ UNCHANGED <<now, frames, limits, windowTimes, run>>

\* after the catch block's await this.stopMicrophone(): throw error
AfterCatchStop(c) ==
    /\ Resumes(c, "awaitCatchStop")
    /\ calls' = [calls EXCEPT ![c] = [@ EXCEPT !.pc = "idle"]]
    /\ microtasks' = Tail(microtasks)
    /\ last' = StartFinished(c, TRUE)
    /\ UNCHANGED <<audioManager, platform, now, frames, limits, windowTimes, run>>

----------------------------------------------------------------------------

Next ==
    \/ CallInitialize
    \/ CallStopMicrophone
    \/ CallCleanup
    \/ CallGetAudioData
    \/ Tick
    \/ \E c \in CallIds : CallStartMicrophone(c)
    \/ \E c \in CallIds : AfterInitialize(c)
    \/ \E c \in CallIds : AfterStop(c)
    \/ \E c \in CallIds : DeviceGrant(c)
    \/ \E c \in CallIds : DeviceReject(c)
    \/ \E c \in CallIds : AfterCatchStop(c)

Spec == Init /\ [][Next]_vars
SpecSerial == InitSerial /\ [][Next]_vars
SpecTeardownSucceeds == InitTeardownSucceeds /\ [][Next]_vars
SpecSignal == InitSignal /\ [][Next]_vars
SpecScenario == InitScenario /\ [][Next]_vars

----------------------------------------------------------------------------
(* Properties                                                               *)

AllTracksStopped(r) == platform.live[Obj(r)] = {}

FreshWindow(metrics, t) ==
    /\ metrics.peakVolume = Zero
    /\ metrics.volumeSum = Zero
    /\ metrics.sampleCount = 0
    /\ metrics.lastUpdate = t

StartSucceeded == last.op = "startMicrophone" /\ ~last.threw
StartFailed == last.op = "startMicrophone" /\ last.threw

\* C1: when a startMicrophone call succeeds that found the session active
\* (holding the stream of an earlier start), then as it returns every track of
\* that first stream is stopped and its source node disconnected, the manager
\* holds the second stream and its node only, the second stream is live, the
\* session is active, and the metrics are a fresh window starting now.
C1_RestartLeavesOneStream ==
    StartSucceeded =>
      \A call \in last.call :
        call.prior # NULL =>
          /\ AllTracksStopped(call.prior)
          /\ call.prior \cap platform.connected = {}
          /\ call.acquired # call.prior
          /\ audioManager.stream = call.acquired
          /\ audioManager.microphone = call.acquired
          /\ platform.live[Obj(call.acquired)] = TrackIds
          /\ call.acquired \subseteq platform.connected
          /\ audioManager.isActive
          /\ FreshWindow(audioManager.metrics, now)

\* a restart, at a time when the first window had a sample in it
C1_Witness ==
    /\ StartSucceeded
    /\ \E call \in last.call : call.prior # NULL
    /\ now > 0
    /\ audioManager.prevVolume # Zero

\* C2: when startMicrophone fails, then as the error reaches the caller all
\* tracks of a stream the call acquired are stopped and the manager holds no
\* stream and no source node.
C2_FailedStartCleansUp ==
    StartFailed =>
      \A call \in last.call :
        /\ call.acquired # NULL => AllTracksStopped(call.acquired)
        /\ audioManager.stream = NULL
        /\ audioManager.microphone = NULL

\* C3: when stopMicrophone, called on an active session, fails in a teardown
\* step, the session is inert as it finishes.
C3_FailedTeardownStillInert ==
    (last.op = "stopMicrophone" /\ last.before.isActive /\ last.threw)
      => ~audioManager.isActive

\* the step in which call c takes the rejection of getUserMedia and runs its
\* catch block
DeviceDenied(c) ==
    /\ calls[c].pc = "awaitGetUserMedia"
    /\ calls'[c].pc = "awaitCatchStop"
    /\ calls'[c].cause = "getUserMedia"

\* C4: when the manager is initialized and getUserMedia rejects, startMicrophone
\* leaves the session inert, initialized still true and no stream retained
\* (checked with one call in flight at a time, under SpecSerial).
C4_DeniedStartLeavesInert ==
    [][\A c \in CallIds :
         (DeviceDenied(c) /\ audioManager.initialized) =>
            /\ ~audioManager'.isActive
            /\ audioManager'.initialized
            /\ audioManager'.stream = NULL]_vars

\* C5: getAudioData on an inert session returns volume 0 and a null snapshot,
\* and does not throw.
C5_InertReturnsZero ==
    (last.op = "getAudioData" /\ ~last.before.isActive) =>
      /\ ~last.threw
      /\ \A r \in last.ret : r.volume = Zero /\ r.frequencyData = NULL

\* getAudioData on a stopped session whose smoothed volume is not 0, with a
\* device request pending
C5_Witness ==
    /\ last.op = "getAudioData"
    /\ ~last.before.isActive
    /\ audioManager.initialized
    /\ audioManager.prevVolume # Zero
    /\ \E c \in CallIds : calls[c].pc = "awaitGetUserMedia"

\* C6: stopMicrophone on an inert session throws nothing, stops no track,
\* disconnects no node and changes no field of the manager.
C6_StopWhenInertIsNoOp ==
    [][(last'.op = "stopMicrophone" /\ ~audioManager.isActive) =>
          /\ ~last'.threw
          /\ audioManager' = audioManager
          /\ platform' = platform]_vars

\* stopMicrophone on an inert manager that has a smoothed volume and a metrics
\* window from an earlier session
C6_Witness ==
    /\ last.op = "stopMicrophone"
    /\ ~last.before.isActive
    /\ audioManager.initialized
    /\ audioManager.prevVolume # Zero
    /\ audioManager.metrics.sampleCount > 0

\* C7: after cleanup the manager is as constructed (not initialized, inert, no
\* context, analyser, stream or source node) and every device track is stopped.
C7_CleanupRestoresConstructed ==
    last.op = "cleanup" =>
      /\ ~audioManager.initialized
      /\ ~audioManager.isActive
      /\ audioManager.audioContext = NULL
      /\ audioManager.analyser = NULL
      /\ audioManager.stream = NULL
      /\ audioManager.microphone = NULL
      /\ \A s \in StreamIds : platform.live[s] = {}

InUnitInterval(x) == RLe(Zero, x) /\ RLe(x, One)

\* C8: the smoothed volume is in [0,1] in every state, and so is every volume
\* getAudioData returns.
C8_VolumeInUnitInterval ==
    /\ InUnitInterval(audioManager.prevVolume)
    /\ last.op = "getAudioData" => \A r \in last.ret : InUnitInterval(r.volume)

\* a second or later frame of a loud signal
C8_Witness ==
    /\ last.op = "getAudioData"
    /\ frames >= 2
    /\ RLt(Rat(1, 3), audioManager.prevVolume)

\* C9 as claimed: every sample summed into a computed averageVolume was taken
\* within one updateInterval of the window's start.
C9_WindowWithinInterval ==
    \A rep \in last.report :
      \A t \in rep.times :
        t >= rep.start /\ t - rep.start <= audioManager.metrics.updateInterval

\* C9 as amended: every sample summed into a computed averageVolume, other than
\* the sample that triggers the report, was taken less than one updateInterval
\* after the window's start; the triggering sample is taken at or after the end
\* of the interval, however late.
C9_WindowClosedByFirstLateSample ==
    \A rep \in last.report :
      /\ rep.at - rep.start >= audioManager.metrics.updateInterval
      /\ rep.at \in rep.times
      /\ \A t \in rep.times \ {rep.at} :
           t >= rep.start /\ t - rep.start < audioManager.metrics.updateInterval

\* a report over a window with an early sample, closed more than one interval
\* after its start
C9_Witness ==
    \E rep \in last.report :
      /\ Cardinality(rep.times) >= 2
      /\ rep.at - rep.start > audioManager.metrics.updateInterval

\* C10: initialize on an initialized manager creates no context and changes no
\* field of the manager.
C10_InitializeIdempotent ==
    [][(last'.op = "initialize" /\ audioManager.initialized) =>
          /\ ~last'.threw
          /\ audioManager' = audioManager
          /\ platform' = platform]_vars

\* initialize on an initialized manager with an active session
C10_Witness ==
    /\ last.op = "initialize"
    /\ last.before.initialized
    /\ last.before.isActive
    /\ audioManager.isActive

\* C11: on an active session, after n frames in a row of one raw volume r > 0,
\* the first of them pulled at smoothed volume 0, the volume getAudioData
\* returns is r * (1 - volumeSmoothing^n), is greater than the volume returned
\* (or held) before it, and is at most r.
C11_SteadyInputConverges ==
    (last.op = "getAudioData" /\ last.before.isActive
       /\ run.n >= 1 /\ run.start = Zero /\ RLt(Zero, run.raw)) =>
      \A r \in last.ret :
        /\ r.volume = RMul(run.raw,
                           RSub(One, RPow(audioManager.volumeSmoothing, run.n)))
        /\ RLt(run.prev, r.volume)
        /\ RLe(r.volume, run.raw)

\* the tenth frame of raw volume 0.6, the first pulled at smoothed volume 0
C11_Witness ==
    /\ last.op = "getAudioData"
    /\ last.before.isActive
    /\ run.n = ScenarioFrames
    /\ run.raw = Rat(3, 5)
    /\ run.start = Zero
    /\ audioManager.prevVolume = RMul(Rat(3, 5), RSub(One, RPow(Rat(4, 5), ScenarioFrames)))

\* the streams that have a track not yet stopped
LiveStreams == {s \in StreamIds : platform.live[s] # {}}

\* every call slot in use has completed a startMicrophone call with success,
\* and one of the calls was made while another was awaiting the device
OverlappingStartsSucceeded ==
    /\ StartSucceeded
    /\ \A c \in CallIds :
         c <= limits.calls =>
           calls[c].pc = "idle" /\ calls[c].cause = "none" /\ calls[c].acquired # NULL
    /\ \E c \in CallIds : calls[c].pending # {}

\* C12: when two overlapping startMicrophone calls have both completed, at most
\* one stream has live tracks, that stream is the one the manager holds, and at
\* most one source node is connected to the analyser.
C12_OverlappingStartsLeakNothing ==
    OverlappingStartsSucceeded =>
      /\ Cardinality(LiveStreams) <= 1
      /\ \A s \in LiveStreams : audioManager.stream = Ref(s)
      /\ Cardinality(platform.connected) <= 1

\* a startMicrophone call is awaiting the device
PendingStart == \E c \in CallIds : calls[c].pc = "awaitGetUserMedia"

\* the step in which getUserMedia resolves for call c
Granted(c) ==
    calls[c].pc = "awaitGetUserMedia" /\ platform'.streams = platform.streams + 1

\* C13: a stopMicrophone made while a startMicrophone call awaits the device
\* changes nothing and leaves the call pending; when the device is granted
\* right after it (the manager still initialized) the session becomes active
\* and holds the granted stream, its tracks live and its node connected; a
\* stopMicrophone on the active session stops all tracks of its stream,
\* releases stream and source node and leaves the session inert.
C13_StopDoesNotCancelPendingStart ==
    [][/\ (last'.op = "stopMicrophone" /\ PendingStart) =>
            /\ ~last'.threw
            /\ audioManager' = audioManager
            /\ platform' = platform
            /\ calls' = calls
            /\ microtasks' = microtasks
       /\ \A c \in CallIds :
            (last.op = "stopMicrophone" /\ Granted(c) /\ audioManager.initialized) =>
               /\ last'.op = "startMicrophone" /\ ~last'.threw
               /\ audioManager'.isActive
               /\ audioManager'.stream = Ref(platform'.streams)
               /\ audioManager'.microphone = Ref(platform'.streams)
               /\ platform'.live[platform'.streams] = TrackIds
               /\ platform'.streams \in platform'.connected
       /\ (last'.op = "stopMicrophone" /\ audioManager.isActive) =>
            /\ audioManager.stream # NULL
            /\ platform'.live[Obj(audioManager.stream)] = {}
            /\ audioManager.microphone \cap platform'.connected = {}
            /\ audioManager'.stream = NULL
            /\ audioManager'.microphone = NULL
            /\ ~audioManager'.isActive]_vars

\* stopMicrophone has returned while a call made after an earlier session awaits
\* the device, which can still be granted
C13_Witness ==
    /\ last.op = "stopMicrophone"
    /\ PendingStart
    /\ audioManager.initialized
    /\ platform.streams = 1
    /\ platform.streams < limits.streams

\* C14: a getAudioData call on an active session, s the smoothed volume it
\* returns. When more than updateInterval has passed since lastUpdate,
\* averageVolume becomes (volumeSum + s) / (sampleCount + 1) and the window
\* restarts at peakVolume = s, volumeSum = s, sampleCount = 1, lastUpdate = now.
\* When less than updateInterval has passed, peakVolume becomes
\* max(peakVolume, s), volumeSum grows by s, sampleCount by 1, and
\* averageVolume and lastUpdate stay as they were.
C14_MetricsUpdate ==
    [][(last'.op = "getAudioData" /\ ~Inert(audioManager)) =>
         LET m == audioManager.metrics
             m2 == audioManager'.metrics
             s == audioManager'.prevVolume
             elapsed == now - m.lastUpdate
         IN  /\ elapsed > m.updateInterval =>
                  /\ m2.averageVolume = RDivInt(RAdd(m.volumeSum, s), m.sampleCount + 1)
                  /\ m2.peakVolume = s
                  /\ m2.volumeSum = s
                  /\ m2.sampleCount = 1
                  /\ m2.lastUpdate = now
             /\ elapsed < m.updateInterval =>
                  /\ m2.peakVolume = RMax(m.peakVolume, s)
                  /\ m2.volumeSum = RAdd(m.volumeSum, s)
                  /\ m2.sampleCount = m.sampleCount + 1
                  /\ m2.averageVolume = m.averageVolume
                  /\ m2.lastUpdate = m.lastUpdate
             /\ m2.updateInterval = m.updateInterval]_vars

\* a call more than one interval after lastUpdate has averaged a window that
\* held an earlier, louder sample and has restarted it
C14_Witness ==
    /\ last.op = "getAudioData"
    /\ \E r \in last.report : r.at - r.start > audioManager.metrics.updateInterval
    /\ audioManager.metrics.sampleCount = 1
    /\ audioManager.metrics.lastUpdate = now
    /\ RLt(audioManager.prevVolume, audioManager.metrics.averageVolume)

\* the step in which a startMicrophone call runs its first statement in the try
\* block, await this.stopMicrophone()
FirstStepOfStart ==
    \E c \in CallIds : calls[c].pc # "awaitStop" /\ calls'[c].pc = "awaitStop"

\* C15: isActive turns true only in the step that completes a startMicrophone
\* call with success; it turns false only in a stopMicrophone call, in the
\* first step of startMicrophone or in cleanup; initialize and getAudioData
\* leave isActive as it is, and getAudioData leaves initialized as it is.
C15_LifecycleTransitions ==
    [][/\ (~audioManager.isActive /\ audioManager'.isActive) =>
            (last'.op = "startMicrophone" /\ ~last'.threw)
       /\ (audioManager.isActive /\ ~audioManager'.isActive) =>
            \/ last'.op = "stopMicrophone"
            \/ last'.op = "cleanup"
            \/ FirstStepOfStart
       /\ last'.op \in {"initialize", "getAudioData"} =>
            audioManager'.isActive = audioManager.isActive
       /\ last'.op = "getAudioData" =>
            audioManager'.initialized = audioManager.initialized]_vars

\* C16: where track.stop() and disconnect() do not throw, an active session is
\* initialized and holds an audio context, an analyser, a stream and a source
\* node, in every state any interleaving of the five methods reaches.
C16_ActiveSessionIsEquipped ==
    audioManager.isActive =>
      /\ audioManager.initialized
      /\ audioManager.audioContext # NULL
      /\ audioManager.analyser # NULL
      /\ audioManager.stream # NULL
      /\ audioManager.microphone # NULL

\* a session made active on a second audio context, after a cleanup, while
\* another startMicrophone call awaits the device
C16_Witness ==
    /\ audioManager.isActive
    /\ audioManager.audioContext = Ref(2)
    /\ platform.closed = {1}
    /\ PendingStart

====
